---- MODULE Spec2Model ----
(***************************************************************************)
(* A model of the two publishing scripts of the repository:                *)
(*   tools/add-post.py                 (the publisher)                     *)
(*   tools/secondthoughts-extractor.py (the extractor)                     *)
(*                                                                         *)
(* Three specifications share the module:                                  *)
(*   SpecImage   process_image on one source image                         *)
(*   SpecParser  ArticleParser fed a sequence of tag/text events           *)
(*   Spec        runs of the publisher's main, the extractor included      *)
(***************************************************************************)
EXTENDS Integers, Sequences, FiniteSets, TLC

\* ------------------------------------------------------------------ bounds
\* Largest width and height of a source image in SpecImage.
MaxDim == 12
\* Number of events fed to one ArticleParser in SpecParser.
MaxEvents == 5
\* Number of publisher runs in Spec.
MaxRuns == 2

VARIABLES
    \* process_image (SpecImage)
    img,          \* the opened source image: width, height, mode, a pixel
    img_pc,       \* "open" | "saved" | "failed"
    box,          \* the crop rectangle <<left, top, right, bottom>>
    out_img,      \* the file written by img.save: <<>> or <<[size, px]>>
    \* ArticleParser (SpecParser)
    title, description, author, in_title, current_tag,
    fed,          \* the events fed so far (history)
    \* publisher main (Spec)
    pc,           \* position of main
    post_url, image_source,
    slug, temp_image,
    steps,        \* the steps this run has executed (history)
    exit_code,    \* -1 while running, else the process's exit status
    stderr,       \* the diagnostic this run printed before exiting, "" if none
    warned,       \* this run printed the git pull warning
    stubs,        \* slugs with a posts/<slug>.mdx
    image_dirs,   \* slugs with a public/post-images/<slug> directory
    headers,      \* slugs with a header.png, and its size
    temp_files,   \* transient download files that exist
    fetched,      \* article pages fetched so far (history)
    listing,      \* content of writing-spotlight.tsx, <<>> when missing
    listing0,     \* its content before the first run (history)
    published,    \* successful runs per slug (history)
    runs          \* runs started so far

image_vars == <<img, img_pc, box, out_img>>
parser_vars == <<title, description, author, in_title, current_tag, fed>>
main_vars == <<pc, post_url, image_source, slug, temp_image, steps, exit_code,
               stderr, warned, stubs, image_dirs, headers, temp_files, fetched,
               listing, listing0, published, runs>>
vars == <<image_vars, parser_vars, main_vars>>

\* ============================================================ process_image

White == <<255, 255, 255>>
Black == <<0, 0, 0>>
Grey == <<128, 128, 128>>
Orange == <<200, 100, 50>>

\* Modes of a source image as PIL reports them.
Modes == {"RGB", "RGBA", "LA", "P", "L"}

\* The colours a pixel of the given mode can carry (L and LA are greyscale).
ColoursOf(mode) == IF mode \in {"L", "LA"} THEN {Black, Grey, White}
                   ELSE {Black, Orange, White}

\* The alpha a pixel of the given mode can carry (for P: the palette entry's
\* transparency, as convert('RGBA') exposes it).
AlphasOf(mode) == IF mode \in {"RGBA", "LA", "P"} THEN {0, 128, 255} ELSE {255}

\* PIL's paste through an 8-bit mask, per channel: MULDIV255 of the blend.
Blend8(bg, fg, mask) ==
    LET tmp == fg * mask + bg * (255 - mask) + 128
    IN  ((tmp \div 256) + tmp) \div 256

Paste(bg, fg, mask) == [i \in 1..3 |-> Blend8(bg[i], fg[i], mask)]

\* Lines 120-129: the RGB pixel after the conversion to RGB. A P image is
\* converted to RGBA first; the alpha band is the paste mask only when the
\* mode is then RGBA, otherwise (LA) the image is pasted without a mask.
Flatten(mode, px) ==
    IF mode \in {"RGBA", "LA", "P"}
    THEN LET m2 == IF mode = "P" THEN "RGBA" ELSE mode
         IN  IF m2 = "RGBA" THEN Paste(White, px.c, px.a) ELSE px.c
    ELSE px.c

\* A faulty variant of CropBox: the vertical crop keeps the top instead of the centre.
CropBox_top(width, height) ==
    IF 3 * width > 4 * height
    THEN LET new_width == (height * 4) \div 3
             left == (width - new_width) \div 2
         IN  <<left, 0, left + new_width, height>>
    ELSE IF 3 * width < 4 * height
    THEN LET new_height == (width * 3) \div 4
         IN  <<0, 0, width, new_height>>
    ELSE <<0, 0, width, height>>

\* A faulty variant of CropBox: the crop is skipped.
CropBox_nocrop(width, height) == <<0, 0, width, height>>

\* Lines 131-148: the crop rectangle. target_ratio is the double 4/3 and
\* current_ratio the double width/height; for image sizes (below 2^26) the
\* comparisons agree with 3*width against 4*height, int(height * target_ratio)
\* with floor(4*height/3) and int(width / target_ratio) with floor(3*width/4).
CropBox(width, height) ==
    IF 3 * width > 4 * height
    THEN LET new_width == (height * 4) \div 3
             left == (width - new_width) \div 2
         IN  <<left, 0, left + new_width, height>>
    ELSE IF 3 * width < 4 * height
    THEN LET new_height == (width * 3) \div 4
             top == (height - new_height) \div 2
         IN  <<0, top, width, top + new_height>>
    ELSE <<0, 0, width, height>>

\* PIL: the size of img.crop(box).
CropSize(b) == <<b[3] - b[1], b[4] - b[2]>>

Images == { [width |-> w, height |-> h, mode |-> m, px |-> [c |-> c, a |-> a]] :
            w \in 1..MaxDim, h \in 1..MaxDim, m \in Modes,
            c \in {Black, Grey, Orange, White}, a \in {0, 128, 255} }


\* process_image, Image.open raising (line 118, caught at 157): exit 1.
ProcessImage_OpenFails ==
    /\ img_pc = "open"
    /\ img_pc' = "failed"
    /\ UNCHANGED <<img, box, out_img>>
    /\ UNCHANGED <<parser_vars, main_vars>>

\* process_image up to img.save raising (line 154, caught at 157): exit 1.
\* An empty crop cannot be encoded by every PNG encoder, a non-empty one
\* fails only on an I/O error.
ProcessImage_SaveFails ==
    /\ img_pc = "open"
    /\ box' = CropBox(img.width, img.height)
    /\ img_pc' = "failed"
    /\ UNCHANGED <<img, out_img>>
    /\ UNCHANGED <<parser_vars, main_vars>>

\* process_image, success: flatten, crop, save as PNG.
ProcessImage_Saves ==
    /\ img_pc = "open"
    /\ box' = CropBox(img.width, img.height)
    /\ out_img' = <<[size |-> CropSize(box'), px |-> Flatten(img.mode, img.px)]>>
    /\ img_pc' = "saved"
    /\ UNCHANGED img
    /\ UNCHANGED <<parser_vars, main_vars>>

NextImage ==
    \/ ProcessImage_OpenFails
    \/ ProcessImage_SaveFails
    \/ ProcessImage_Saves

\* ============================================================ ArticleParser

\* Python's None, for a text held as a sequence of characters and for a string.
NoneText == <<"None">>
NoneStr == "<None>"

\* str.strip(): leading and trailing whitespace removed.
RECURSIVE LStrip(_)
LStrip(s) == IF s # <<>> /\ Head(s) = " " THEN LStrip(Tail(s)) ELSE s

RECURSIVE RStrip(_)
RStrip(s) == IF s # <<>> /\ s[Len(s)] = " " THEN RStrip(SubSeq(s, 1, Len(s) - 1)) ELSE s

Strip(s) == RStrip(LStrip(s))

\* The attributes of a start tag, as dict(attrs) is read by the parser:
\* rh / helmet: 'data-rh' / 'data-preact-helmet' is a key; name: the value of
\* 'name' ("" when absent); has_content, content: the 'content' key.
Attrs(rh, helmet, name, has_content, content) ==
    [rh |-> rh, helmet |-> helmet, name |-> name,
     has_content |-> has_content, content |-> content]

NoAttrs == Attrs(FALSE, FALSE, "", FALSE, "")

TitleAttrs == { NoAttrs, Attrs(TRUE, FALSE, "", FALSE, ""), Attrs(FALSE, TRUE, "", FALSE, "") }

MetaAttrs == { Attrs(TRUE, FALSE, "description", TRUE, "D"),
               Attrs(FALSE, FALSE, "description", TRUE, "D2"),
               Attrs(FALSE, TRUE, "description", FALSE, ""),
               Attrs(FALSE, FALSE, "author", TRUE, "X"),
               Attrs(FALSE, FALSE, "author", FALSE, "") }

StartTags == { <<"title", a>> : a \in TitleAttrs } \cup { <<"meta", a>> : a \in MetaAttrs }
                 \cup { <<"b", NoAttrs>> }

EndTags == {"title", "b"}

Texts == { <<" ", "A", " ">>, <<"B">>, <<" ">> }

Event(kind, tag, attrs, data) == [kind |-> kind, tag |-> tag, attrs |-> attrs, data |-> data]

\* Line 33: a <title> tag carrying data-rh or data-preact-helmet.
MarkedTitle(tag, attrs) == tag = "title" /\ (attrs.rh \/ attrs.helmet)

\* Lines 28-47: handle_starttag (current_attrs is written and never read).
HandleStarttag(tag, attrs) ==
    /\ Len(fed) < MaxEvents
    /\ current_tag' = tag
    /\ in_title' = IF MarkedTitle(tag, attrs) THEN TRUE ELSE in_title
    /\ description' = IF tag = "meta" /\ (attrs.rh \/ attrs.helmet) /\ attrs.name = "description"
                      THEN (IF attrs.has_content THEN attrs.content ELSE "")
                      ELSE description
    /\ author' = IF tag = "meta" /\ attrs.name = "author"
                 THEN (IF attrs.has_content THEN attrs.content ELSE "")
                 ELSE author
    /\ fed' = Append(fed, Event("start", tag, attrs, <<>>))
    /\ UNCHANGED title

\* Lines 49-51: handle_data
HandleData(data) ==
    /\ Len(fed) < MaxEvents
    /\ title' = IF in_title THEN Strip(data) ELSE title
    /\ fed' = Append(fed, Event("data", "", NoAttrs, data))
    /\ UNCHANGED <<description, author, in_title, current_tag>>

\* Lines 53-55: handle_endtag
HandleEndtag(tag) ==
    /\ Len(fed) < MaxEvents
    /\ in_title' = IF tag = "title" /\ in_title THEN FALSE ELSE in_title
    /\ fed' = Append(fed, Event("end", tag, NoAttrs, <<>>))
    /\ UNCHANGED <<title, description, author, current_tag>>

\* parser.feed delivering one event.
FeedStart ==
    /\ \E st \in StartTags : HandleStarttag(st[1], st[2])
    /\ UNCHANGED <<image_vars, main_vars>>

FeedData ==
    /\ \E d \in Texts : HandleData(d)
    /\ UNCHANGED <<image_vars, main_vars>>

FeedEnd ==
    /\ \E t \in EndTags : HandleEndtag(t)
    /\ UNCHANGED <<image_vars, main_vars>>

NextParser ==
    \/ FeedStart
    \/ FeedData
    \/ FeedEnd

\* ================================================================ extractor

\* Characters of a URL, in the chunks the scripts tell apart.
base_url == <<"https://", "secondthoughts.ai", "/p/">>

\* str.startswith
StartsWith(s, prefix) ==
    /\ Len(s) >= Len(prefix)
    /\ SubSeq(s, 1, Len(prefix)) = prefix

\* Line 75: url[len(base_url):]
VariablePortion(url) == SubSeq(url, Len(base_url) + 1, Len(url))

\* A faulty variant of ValidationError: the check for an empty path is missing.
ValidationError_prefix_only(url) == ~StartsWith(url, base_url)

\* Lines 70-77: fetch_and_extract raises ValueError before it fetches.
ValidationError(url) ==
    \/ ~StartsWith(url, base_url)
    \/ VariablePortion(url) = <<>>

\* ================================================================ listing

\* writing-spotlight.tsx as a sequence of tokens <<kind, id>>:
\*   decl  the text  const postSlugs = [        nl  a newline
\*   sp    a space                               end the text  ];
\*   elem  the text  "<id>",                     text any other text
NoId == <<>>
DECL == <<"decl", NoId>>
NL == <<"nl", NoId>>
SP == <<"sp", NoId>>
END == <<"end", NoId>>
TEXT == <<"text", NoId>>
Elem(id) == <<"elem", id>>

\* \s of the pattern
IsSpace(t) == t \in {NL, SP}

\* The last index of the whitespace run that follows index i.
RECURSIVE RunEnd(_, _)
RunEnd(content, i) ==
    IF i < Len(content) /\ IsSpace(content[i + 1]) THEN RunEnd(content, i + 1) ELSE i

\* Lines 180-181: re.search of (const postSlugs = \[\s*\n)(\s*). The greedy \s*
\* takes the whole whitespace run and backs up to its last newline; the result
\* is the leftmost declaration that matches: d its index, end1 = match.end(1),
\* end2 the end of group 2, and d = 0 when nothing matches.
Search(content) ==
    LET starts == { i \in 1..Len(content) :
                      /\ content[i] = DECL
                      /\ \E k \in (i + 1)..RunEnd(content, i) : content[k] = NL }
    IN  IF starts = {} THEN [d |-> 0, end1 |-> 0, end2 |-> 0]
        ELSE LET d == CHOOSE i \in starts : \A j \in starts : i <= j
                 e == RunEnd(content, d)
                 k == CHOOSE n \in (d + 1)..e :
                        /\ content[n] = NL
                        /\ \A m \in (n + 1)..e : content[m] # NL
             IN  [d |-> d, end1 |-> k, end2 |-> e]

\* A faulty variant of NewContent: the slug is skipped when the array already holds it.
NewContent_dedup(content, id) ==
    LET m == Search(content)
        indent == SubSeq(content, m.end1 + 1, m.end2)
    IN  IF \E i \in 1..Len(content) : content[i] = Elem(id) THEN content
        ELSE SubSeq(content, 1, m.end1) \o indent \o <<Elem(id), NL>>
               \o SubSeq(content, m.end1 + 1, Len(content))

\* A faulty variant of NewContent: the entry is appended at the end of the first line
\* of elements instead of inserted before it.
NewContent_after_first(content, id) ==
    LET m == Search(content)
        indent == SubSeq(content, m.end1 + 1, m.end2)
        rest == SubSeq(content, m.end2 + 1, Len(content))
        n == IF \E i \in 1..Len(rest) : rest[i] = NL
             THEN m.end2 + (CHOOSE i \in 1..Len(rest) :
                              rest[i] = NL /\ \A j \in 1..(i - 1) : rest[j] # NL)
             ELSE Len(content)
    IN  SubSeq(content, 1, n) \o indent \o <<Elem(id), NL>>
          \o SubSeq(content, n + 1, Len(content))

\* Lines 188-190: indent = match.group(2); the new entry goes in at match.end(1).
NewContent(content, id) ==
    LET m == Search(content)
        indent == SubSeq(content, m.end1 + 1, m.end2)
    IN  SubSeq(content, 1, m.end1) \o indent \o <<Elem(id), NL>>
          \o SubSeq(content, m.end1 + 1, Len(content))

\* The files writing-spotlight.tsx may be before the first run.
ListingFiles ==
    { <<DECL, NL, SP, SP, Elem(<<"a">>), NL, SP, SP, Elem(<<"b">>), NL, END>>,
      <<TEXT, NL, DECL, NL, END, NL>>,
      <<DECL, NL, NL, SP, Elem(<<"a">>), NL, END>>,
      <<DECL, SP, NL, SP, TEXT, NL, SP, Elem(<<"b">>), NL, END>>,
      <<DECL, Elem(<<"a">>), SP, Elem(<<"b">>), END, NL>>,
      <<TEXT, NL>>,
      <<>> }

\* ================================================================ publisher

PostUrls ==
    { base_url \o <<"a">>,
      base_url \o <<"c">>,
      base_url,
      <<"http://", "secondthoughts.ai", "/p/", "a">>,
      <<"https://", "example.com", "/p/", "a">>,
      <<>> }

\* Header image arguments, and the local paths that exist.
ImageSources ==
    { <<"https://", "example.com/i.png">>, <<"http://", "example.com/i.png">>,
      <<"./image.jpg">>, <<"./missing.jpg">> }

LocalFiles == { <<"./image.jpg">> }

\* Line 227
IsRemote(source) == StartsWith(source, <<"http://">>) \/ StartsWith(source, <<"https://">>)

\* Sizes of the header images a run may be given.
ImageSizes == { <<8, 6>>, <<5, 4>>, <<1, 2>> }

NoTemp == 0


\* sys.exit(1) (or an uncaught exception) in step `step`, after `msg` on stderr.
Exit1(step, msg) ==
    /\ pc' = "failed"
    /\ exit_code' = 1
    /\ stderr' = msg
    /\ steps' = Append(steps, step)

\* The step succeeded: main goes on.
Goes(step, next) ==
    /\ pc' = next
    /\ steps' = Append(steps, step)
    /\ UNCHANGED <<exit_code, stderr>>

\* Lines 202-217: main is started with two arguments.
Main_Start ==
    /\ pc \in {"idle", "done", "failed"}
    /\ runs < MaxRuns
    /\ runs' = runs + 1
    /\ post_url' \in PostUrls
    /\ image_source' \in ImageSources
    /\ pc' = "start"
    /\ slug' = <<>>
    /\ temp_image' = NoTemp
    /\ steps' = <<>>
    /\ exit_code' = -1
    /\ stderr' = ""
    /\ warned' = FALSE
    /\ UNCHANGED <<stubs, image_dirs, headers, temp_files, fetched, listing, listing0, published>>
    /\ UNCHANGED <<image_vars, parser_vars>>

\* Lines 203-209: main is started with another number of arguments.
Main_Usage ==
    /\ pc \in {"idle", "done", "failed"}
    /\ runs < MaxRuns
    /\ runs' = runs + 1
    /\ post_url' = <<>>
    /\ image_source' = <<>>
    /\ pc' = "failed"
    /\ slug' = <<>>
    /\ temp_image' = NoTemp
    /\ steps' = <<>>
    /\ exit_code' = 1
    /\ stderr' = "usage"
    /\ warned' = FALSE
    /\ UNCHANGED <<stubs, image_dirs, headers, temp_files, fetched, listing, listing0, published>>
    /\ UNCHANGED <<image_vars, parser_vars>>

\* Lines 28-39: run_git_pull, git pull returning 0.
RunGitPull_Ok ==
    /\ pc = "start"
    /\ Goes("sync", "synced")
    /\ UNCHANGED <<post_url, image_source, slug, temp_image, warned, stubs, image_dirs,
                   headers, temp_files, fetched, listing, listing0, published, runs>>
    /\ UNCHANGED <<image_vars, parser_vars>>

\* A faulty variant of RunGitPull_Fails: a failed pull ends the run.
RunGitPull_Fails_fatal ==
    /\ pc = "start"
    /\ Exit1("sync", "git")
    /\ warned' = TRUE
    /\ UNCHANGED <<post_url, image_source, slug, temp_image, stubs, image_dirs,
                   headers, temp_files, fetched, listing, listing0, published, runs>>
    /\ UNCHANGED <<image_vars, parser_vars>>

\* Lines 36-37: git pull returning non-zero: a warning, and main goes on.
RunGitPull_Fails ==
    /\ pc = "start"
    /\ Goes("sync", "synced")
    /\ warned' = TRUE
    /\ UNCHANGED <<post_url, image_source, slug, temp_image, stubs, image_dirs,
                   headers, temp_files, fetched, listing, listing0, published, runs>>
    /\ UNCHANGED <<image_vars, parser_vars>>

\* Lines 42-57 with the extractor's main (extractor lines 157-194) as the
\* subprocess: the URL fails validation, nothing is fetched or created.
Extract_Invalid ==
    /\ pc = "synced"
    /\ ValidationError(post_url)
    /\ Exit1("extract", "extractor")
    /\ UNCHANGED <<post_url, image_source, slug, temp_image, warned, stubs, image_dirs,
                   headers, temp_files, fetched, listing, listing0, published, runs>>
    /\ UNCHANGED <<image_vars, parser_vars>>

\* Extractor lines 80-85: urlopen raises URLError.
Extract_FetchFails ==
    /\ pc = "synced"
    /\ ~ValidationError(post_url)
    /\ fetched' = fetched \cup {post_url}
    /\ Exit1("extract", "extractor")
    /\ UNCHANGED <<post_url, image_source, slug, temp_image, warned, stubs, image_dirs,
                   headers, temp_files, listing, listing0, published, runs>>
    /\ UNCHANGED <<image_vars, parser_vars>>

\* Extractor lines 106-130: create_mdx_file exits (no posts directory, or the
\* write raises IOError).
Extract_MdxFails ==
    /\ pc = "synced"
    /\ ~ValidationError(post_url)
    /\ VariablePortion(post_url) # <<>>
    /\ fetched' = fetched \cup {post_url}
    /\ Exit1("extract", "extractor")
    /\ UNCHANGED <<post_url, image_source, slug, temp_image, warned, stubs, image_dirs,
                   headers, temp_files, listing, listing0, published, runs>>
    /\ UNCHANGED <<image_vars, parser_vars>>

\* Extractor lines 133-152: the stub is written, then os.makedirs raises.
Extract_DirFails ==
    /\ pc = "synced"
    /\ ~ValidationError(post_url)
    /\ VariablePortion(post_url) # <<>>
    /\ VariablePortion(post_url) \notin image_dirs
    /\ fetched' = fetched \cup {post_url}
    /\ stubs' = stubs \cup {VariablePortion(post_url)}
    /\ Exit1("extract", "extractor")
    /\ UNCHANGED <<post_url, image_source, slug, temp_image, warned, image_dirs,
                   headers, temp_files, listing, listing0, published, runs>>
    /\ UNCHANGED <<image_vars, parser_vars>>

\* The extractor fetches, prints its five lines and (extractor lines 179-190)
\* creates the stub and the image directory when the slug is not empty;
\* lines 59-72: the publisher takes the first line of its output as the slug.
Extract_Ok ==
    /\ pc = "synced"
    /\ ~ValidationError(post_url)
    /\ fetched' = fetched \cup {post_url}
    /\ IF VariablePortion(post_url) = <<>>
       THEN /\ Exit1("extract", "extractor")
            /\ UNCHANGED <<slug, stubs, image_dirs>>
       ELSE /\ stubs' = stubs \cup {VariablePortion(post_url)}
            /\ image_dirs' = image_dirs \cup {VariablePortion(post_url)}
            /\ slug' = VariablePortion(post_url)
            /\ Goes("extract", "extracted")
    /\ UNCHANGED <<post_url, image_source, temp_image, warned,
                   headers, temp_files, listing, listing0, published, runs>>
    /\ UNCHANGED <<image_vars, parser_vars>>

\* Lines 75-102: download_image writes the response to a fresh temp file.
Download_Ok ==
    /\ pc = "extracted"
    /\ IsRemote(image_source)
    /\ temp_files' = temp_files \cup {runs}
    /\ temp_image' = runs
    /\ Goes("resolve", "resolved")
    /\ UNCHANGED <<post_url, image_source, slug, warned, stubs, image_dirs,
                   headers, fetched, listing, listing0, published, runs>>
    /\ UNCHANGED <<image_vars, parser_vars>>

\* Lines 103-105: urlopen raises URLError.
Download_URLError ==
    /\ pc = "extracted"
    /\ IsRemote(image_source)
    /\ Exit1("resolve", "download")
    /\ UNCHANGED <<post_url, image_source, slug, temp_image, warned, stubs, image_dirs,
                   headers, temp_files, fetched, listing, listing0, published, runs>>
    /\ UNCHANGED <<image_vars, parser_vars>>

\* Lines 97-99: mkstemp has created the file and response.read() raises an
\* exception that is no URLError (a reset connection): it ends the process.
Download_ReadFails ==
    /\ pc = "extracted"
    /\ IsRemote(image_source)
    /\ temp_files' = temp_files \cup {runs}
    /\ Exit1("resolve", "traceback")
    /\ UNCHANGED <<post_url, image_source, slug, temp_image, warned, stubs, image_dirs,
                   headers, fetched, listing, listing0, published, runs>>
    /\ UNCHANGED <<image_vars, parser_vars>>

\* Lines 230-235: a local path that exists.
Local_Exists ==
    /\ pc = "extracted"
    /\ ~IsRemote(image_source)
    /\ image_source \in LocalFiles
    /\ temp_image' = NoTemp
    /\ Goes("resolve", "resolved")
    /\ UNCHANGED <<post_url, image_source, slug, warned, stubs, image_dirs,
                   headers, temp_files, fetched, listing, listing0, published, runs>>
    /\ UNCHANGED <<image_vars, parser_vars>>

\* Lines 231-233: a local path that does not exist.
Local_Missing ==
    /\ pc = "extracted"
    /\ ~IsRemote(image_source)
    /\ image_source \notin LocalFiles
    /\ Exit1("resolve", "not_found")
    /\ UNCHANGED <<post_url, image_source, slug, temp_image, warned, stubs, image_dirs,
                   headers, temp_files, fetched, listing, listing0, published, runs>>
    /\ UNCHANGED <<image_vars, parser_vars>>

\* Lines 237-238, 108-155: process_image crops the image and saves header.png
\* (os.makedirs with exist_ok creates the directory when it is missing).
Normalize_Ok ==
    /\ pc = "resolved"
    /\ \E sz \in ImageSizes :
         headers' = { h \in headers : h[1] # slug }
                      \cup { <<slug, CropSize(CropBox(sz[1], sz[2]))>> }
    /\ image_dirs' = image_dirs \cup {slug}
    /\ Goes("normalize", "normalized")
    /\ UNCHANGED <<post_url, image_source, slug, temp_image, warned, stubs,
                   temp_files, fetched, listing, listing0, published, runs>>
    /\ UNCHANGED <<image_vars, parser_vars>>

\* Lines 157-159: any exception in process_image ends the process.
Normalize_Fails ==
    /\ pc = "resolved"
    /\ Exit1("normalize", "image")
    /\ UNCHANGED <<post_url, image_source, slug, temp_image, warned, stubs, image_dirs,
                   headers, temp_files, fetched, listing, listing0, published, runs>>
    /\ UNCHANGED <<image_vars, parser_vars>>

\* Lines 240-242: the temp file is removed when one was downloaded.
Cleanup ==
    /\ pc = "normalized"
    /\ temp_files' = IF temp_image # NoTemp /\ temp_image \in temp_files
                     THEN temp_files \ {temp_image}
                     ELSE temp_files
    /\ Goes("cleanup", "cleaned")
    /\ UNCHANGED <<post_url, image_source, slug, temp_image, warned, stubs, image_dirs,
                   headers, fetched, listing, listing0, published, runs>>
    /\ UNCHANGED <<image_vars, parser_vars>>

\* Lines 162-195 and 247-260: the pattern matches, the file is rewritten and
\* main returns.
Patch_Ok ==
    /\ pc = "cleaned"
    /\ listing # <<>>
    /\ Search(listing).d # 0
    /\ listing' = NewContent(listing, slug)
    /\ published' = Append(published, slug)
    /\ pc' = "done"
    /\ exit_code' = 0
    /\ steps' = Append(steps, "patch")
    /\ UNCHANGED <<post_url, image_source, slug, temp_image, stderr, warned, stubs,
                   image_dirs, headers, temp_files, fetched, listing0, runs>>
    /\ UNCHANGED <<image_vars, parser_vars>>

\* Lines 183-185: the pattern does not match.
Patch_NoMatch ==
    /\ pc = "cleaned"
    /\ listing # <<>>
    /\ Search(listing).d = 0
    /\ Exit1("patch", "no_pattern")
    /\ UNCHANGED <<post_url, image_source, slug, temp_image, warned, stubs, image_dirs,
                   headers, temp_files, fetched, listing, listing0, published, runs>>
    /\ UNCHANGED <<image_vars, parser_vars>>

\* Lines 197-199: open raises (the file is missing, or cannot be opened for
\* writing): the file is left as it was.
Patch_IOError ==
    /\ pc = "cleaned"
    /\ listing = <<>> \/ Search(listing).d # 0
    /\ Exit1("patch", "spotlight_io")
    /\ UNCHANGED <<post_url, image_source, slug, temp_image, warned, stubs, image_dirs,
                   headers, temp_files, fetched, listing, listing0, published, runs>>
    /\ UNCHANGED <<image_vars, parser_vars>>

Next ==
    \/ Main_Start
    \/ Main_Usage
    \/ RunGitPull_Ok
    \/ RunGitPull_Fails
    \/ Extract_Invalid
    \/ Extract_FetchFails
    \/ Extract_MdxFails
    \/ Extract_DirFails
    \/ Extract_Ok
    \/ Download_Ok
    \/ Download_URLError
    \/ Download_ReadFails
    \/ Local_Exists
    \/ Local_Missing
    \/ Normalize_Ok
    \/ Normalize_Fails
    \/ Cleanup
    \/ Patch_Ok
    \/ Patch_NoMatch
    \/ Patch_IOError

\* ================================================================== claims

\* floor(num / den) for num >= 0 and den > 0, by its definition.
Floor(num, den) == CHOOSE q \in 0..num : den * q <= num /\ num < den * (q + 1)

\* The reference crop of a W x H image: the size kept and the offsets.
RefCrop(W, H) ==
    IF 3 * W > 4 * H
    THEN [size |-> <<Floor(4 * H, 3), H>>, left |-> Floor(W - Floor(4 * H, 3), 2), top |-> 0]
    ELSE IF 3 * W < 4 * H
    THEN [size |-> <<W, Floor(3 * W, 4)>>, left |-> 0, top |-> Floor(H - Floor(3 * W, 4), 2)]
    ELSE [size |-> <<W, H>>, left |-> 0, top |-> 0]

\* C1: the image process_image saves has the size of the reference crop,
\* taken at the reference's left and top offsets: (floor(4H/3), H) at left
\* floor((W - floor(4H/3))/2) when W/H > 4/3, (W, floor(3W/4)) at top
\* floor((H - floor(3W/4))/2) when W/H < 4/3, and (W, H) when W/H = 4/3.
C1_SavedSizeIsReferenceCrop ==
    img_pc = "saved" =>
        LET ref == RefCrop(img.width, img.height)
        IN  /\ out_img[1].size = ref.size
            /\ box[1] = ref.left
            /\ box[2] = ref.top

\* A 5 x 12 image was saved as 5 x 3, cut 4 rows below the top.
C1_Witness ==
    /\ img_pc = "saved"
    /\ img.width = 5 /\ img.height = 12
    /\ out_img[1].size = <<5, 3>>
    /\ box = <<0, 4, 5, 7>>

\* C2, as claimed: every image the normalizer writes has 3 * width = 4 * height.
C2_Original ==
    img_pc = "saved" => 3 * out_img[1].size[1] = 4 * out_img[1].size[2]

\* C2, amended: the written image is 4:3 up to the flooring of the side that
\* is cropped: 3w = 4h when the source is exactly 4:3; h = H and
\* 0 <= 4h - 3w <= 2 when the source is wider; w = W and 0 <= 3w - 4h <= 3
\* when it is taller.
C2_FourByThreeUpToFlooring ==
    img_pc = "saved" =>
        LET w == out_img[1].size[1]
            h == out_img[1].size[2]
            W == img.width
            H == img.height
        IN  /\ 3 * W = 4 * H => 3 * w = 4 * h
            /\ 3 * W > 4 * H => h = H /\ 0 <= 4 * h - 3 * w /\ 4 * h - 3 * w <= 2
            /\ 3 * W < 4 * H => w = W /\ 0 <= 3 * w - 4 * h /\ 3 * w - 4 * h <= 3

\* A 5 x 4 image was saved as 5 x 3, which is not exactly 4:3.
C2_Witness ==
    /\ img_pc = "saved"
    /\ img.width = 5 /\ img.height = 4
    /\ out_img[1].size = <<5, 3>>

C10_CropBoxNotEmpty ==
    box # <<>> =>
        /\ box[3] - box[1] >= 1
        /\ box[4] - box[2] >= 1
        /\ 0 <= box[1] /\ box[3] <= img.width
        /\ 0 <= box[2] /\ box[4] <= img.height

\* The index of the first marked <title> start tag among the events, or 0.
FirstMarked(evts) ==
    LET marked == { i \in 1..Len(evts) :
                      evts[i].kind = "start" /\ MarkedTitle(evts[i].tag, evts[i].attrs) }
    IN  IF marked = {} THEN 0 ELSE CHOOSE i \in marked : \A j \in marked : i <= j

\* C6, as claimed, where the first marked <title> element has arrived as a
\* start tag, one text and its end tag: the title is that text, trimmed,
\* whatever events follow (later marked <title> elements, text outside).
C6_TitleIsFirstMarkedTitle ==
    LET i == FirstMarked(fed)
    IN  ( /\ i # 0
          /\ i + 2 <= Len(fed)
          /\ fed[i + 1].kind = "data"
          /\ fed[i + 2].kind = "end" /\ fed[i + 2].tag = "title" )
        => title = Strip(fed[i + 1].data)

\* The ids of the "<id>", entries of a file, in order.
RECURSIVE Elements(_)
Elements(content) ==
    IF content = <<>> THEN <<>>
    ELSE (IF Head(content)[1] = "elem" THEN <<Head(content)[2]>> ELSE <<>>)
           \o Elements(Tail(content))

HasDecl(content) == \E i \in 1..Len(content) : content[i] = DECL

\* The first index after d holding token t, or Len(content) + 1.
FirstAfter(content, d, t) ==
    LET at == { i \in (d + 1)..Len(content) : content[i] = t }
    IN  IF at = {} THEN Len(content) + 1 ELSE CHOOSE i \in at : \A j \in at : i <= j

\* The spaces directly before index e.
RECURSIVE SpacesBefore(_, _)
SpacesBefore(content, e) ==
    IF e > 1 /\ e - 1 <= Len(content) /\ content[e - 1] = SP
    THEN Append(SpacesBefore(content, e - 1), SP) ELSE <<>>

\* C3 as claimed: the entry goes in right after the line of the declaration,
\* with the indentation of the first element.
ClaimedPatch(content, id) ==
    LET d == FirstAfter(content, 0, DECL)
        n == IF FirstAfter(content, d, NL) > Len(content) THEN Len(content)
             ELSE FirstAfter(content, d, NL)
        elems == { i \in (d + 1)..Len(content) : content[i][1] = "elem" }
        indent == IF elems = {} THEN <<>>
                  ELSE SpacesBefore(content, CHOOSE i \in elems : \A j \in elems : i <= j)
    IN  SubSeq(content, 1, n) \o indent \o <<Elem(id), NL>>
          \o SubSeq(content, n + 1, Len(content))

\* C3, as claimed: whenever the file holds the declaration (and can be read
\* and written), update_writing_spotlight inserts the entry right after the
\* declaration line.
C3_Original ==
    [][ (pc = "cleaned" /\ HasDecl(listing) /\ stderr' # "spotlight_io")
        => (pc' = "done" /\ listing' = ClaimedPatch(listing, slug)) ]_vars

\* The declarations followed by nothing but whitespace up to a newline.
Applicable(content) ==
    { d \in 1..Len(content) :
        /\ content[d] = DECL
        /\ \E n \in (d + 1)..Len(content) :
             content[n] = NL /\ \A m \in (d + 1)..(n - 1) : IsSpace(content[m]) }

\* The entry inserted at the start of the line that holds the first text after
\* the first applicable declaration, with that line's indentation.
RefPatch(content, id) ==
    LET apps == Applicable(content)
        d == CHOOSE i \in apps : \A j \in apps : i <= j
        texts == { i \in (d + 1)..Len(content) : ~IsSpace(content[i]) }
        f == IF texts = {} THEN Len(content) + 1
             ELSE CHOOSE i \in texts : \A j \in texts : i <= j
        p == CHOOSE n \in (d + 1)..(f - 1) :
               content[n] = NL /\ \A m \in (n + 1)..(f - 1) : content[m] # NL
    IN  SubSeq(content, 1, p) \o SubSeq(content, p + 1, f - 1) \o <<Elem(id), NL>>
          \o SubSeq(content, p + 1, Len(content))

\* C3, amended: when the declaration is followed by nothing but whitespace up
\* to a newline, the patch (unless the file cannot be opened) inserts one
\* entry for the id at the start of the line holding the first text after the
\* bracket, indented as that line; the elements are then the id followed by
\* the previous elements. Otherwise the file is left as it was and the run
\* fails.
C3_InsertsBeforeFirstTextLine ==
    [][ pc = "cleaned" =>
          /\ (Applicable(listing) # {} /\ stderr' # "spotlight_io") => pc' = "done"
          /\ pc' = "done" =>
               /\ Applicable(listing) # {}
               /\ listing' = RefPatch(listing, slug)
               /\ Elements(listing') = <<slug>> \o Elements(listing)
          /\ pc' # "done" => listing' = listing /\ exit_code' = 1 ]_vars

\* The fixture ["a", "b"] patched with "c" has become ["c", "a", "b"].
C3_Witness ==
    /\ pc = "done"
    /\ slug = <<"c">>
    /\ listing = <<DECL, NL, SP, SP, Elem(<<"c">>), NL, SP, SP, Elem(<<"a">>), NL,
                   SP, SP, Elem(<<"b">>), NL, END>>

\* C4, as claimed: when a run that downloaded its image has ended, the
\* transient file it downloaded is gone.
C4_TempFileRemovedAtExit ==
    (pc \in {"done", "failed"} /\ temp_image # NoTemp) => temp_image \notin temp_files

\* C5: the extractor, given a URL without the required prefix or the bare
\* prefix, exits non-zero without fetching the page and without creating a
\* stub file or an image directory.
C5_InvalidUrlCreatesNothing ==
    [][ (pc = "synced" /\ (~StartsWith(post_url, base_url) \/ post_url = base_url))
        => /\ pc' = "failed"
           /\ exit_code' # 0
           /\ fetched' = fetched
           /\ stubs' = stubs
           /\ image_dirs' = image_dirs
           /\ headers' = headers ]_vars

\* The extractor has rejected the bare prefix: nothing fetched, nothing created.
C5_Witness ==
    /\ pc = "failed"
    /\ steps = <<"sync", "extract">>
    /\ post_url = base_url
    /\ fetched = {}
    /\ stubs = {}
    /\ image_dirs = {}

StepOrder == <<"sync", "extract", "resolve", "normalize", "cleanup", "patch">>

IsPrefix(s, t) == Len(s) <= Len(t) /\ s = SubSeq(t, 1, Len(s))

CountElem(content, id) == Cardinality({ i \in 1..Len(content) : content[i] = Elem(id) })

\* The number of successful runs for id.
CountRuns(id) == Cardinality({ i \in 1..Len(published) : published[i] = id })

\* C9: the listing holds one more entry for an identifier per successful run
\* with it, whether or not it is already listed: two successful runs with the
\* same post URL leave two entries.
C9_OneMoreEntryPerRun ==
    \A id \in {<<"a">>, <<"b">>, <<"c">>} :
        CountElem(listing, id) = CountElem(listing0, id) + CountRuns(id)

\* Two successful runs with .../p/c have left two entries for c.
C9_Witness ==
    /\ pc = "done"
    /\ published = <<<<"c">>, <<"c">>>>
    /\ CountElem(listing0, <<"c">>) = 0
    /\ CountElem(listing, <<"c">>) = 2


\* ========================================================== specifications

\* Each specification starts the part of the state it exercises as the code
\* constructs it and holds the rest fixed.
\* Spec: no run of the publisher has started; the listing file is any of
\* ListingFiles.
Init ==
    /\ pc = "idle"
    /\ post_url = <<>>
    /\ image_source = <<>>
    /\ slug = <<>>
    /\ temp_image = NoTemp
    /\ steps = <<>>
    /\ exit_code = -1
    /\ stderr = ""
    /\ warned = FALSE
    /\ stubs = {}
    /\ image_dirs = {}
    /\ headers = {}
    /\ temp_files = {}
    /\ fetched = {}
    /\ listing \in ListingFiles
    /\ listing0 = listing
    /\ published = <<>>
    /\ runs = 0
    /\ img = [width |-> 4, height |-> 3, mode |-> "RGB", px |-> [c |-> White, a |-> 255]]
    /\ img_pc = "idle"
    /\ box = <<>>
    /\ out_img = <<>>
    /\ title = NoneText
    /\ description = NoneStr
    /\ author = NoneStr
    /\ in_title = FALSE
    /\ current_tag = NoneStr
    /\ fed = <<>>

\* SpecImage: Image.open has returned any image of Images whose pixel fits
\* its mode.
InitOfImage ==
    /\ img \in { i \in Images : /\ i.px.c \in ColoursOf(i.mode)
                                /\ i.px.a \in AlphasOf(i.mode) }
    /\ img_pc = "open"
    /\ box = <<>>
    /\ out_img = <<>>
    /\ title = NoneText
    /\ description = NoneStr
    /\ author = NoneStr
    /\ in_title = FALSE
    /\ current_tag = NoneStr
    /\ fed = <<>>
    /\ pc = "off"
    /\ post_url = <<>>
    /\ image_source = <<>>
    /\ slug = <<>>
    /\ temp_image = NoTemp
    /\ steps = <<>>
    /\ exit_code = -1
    /\ stderr = ""
    /\ warned = FALSE
    /\ stubs = {}
    /\ image_dirs = {}
    /\ headers = {}
    /\ temp_files = {}
    /\ fetched = {}
    /\ listing = <<>>
    /\ listing0 = <<>>
    /\ published = <<>>
    /\ runs = 0

\* SpecParser: lines 19-26, ArticleParser.__init__.
InitOfParser ==
    /\ title = NoneText
    /\ description = NoneStr
    /\ author = NoneStr
    /\ in_title = FALSE
    /\ current_tag = NoneStr
    /\ fed = <<>>
    /\ img = [width |-> 4, height |-> 3, mode |-> "RGB", px |-> [c |-> White, a |-> 255]]
    /\ img_pc = "idle"
    /\ box = <<>>
    /\ out_img = <<>>
    /\ pc = "off"
    /\ post_url = <<>>
    /\ image_source = <<>>
    /\ slug = <<>>
    /\ temp_image = NoTemp
    /\ steps = <<>>
    /\ exit_code = -1
    /\ stderr = ""
    /\ warned = FALSE
    /\ stubs = {}
    /\ image_dirs = {}
    /\ headers = {}
    /\ temp_files = {}
    /\ fetched = {}
    /\ listing = <<>>
    /\ listing0 = <<>>
    /\ published = <<>>
    /\ runs = 0

Spec == Init /\ [][Next]_vars

SpecImage == InitOfImage /\ [][NextImage]_vars

SpecParser == InitOfParser /\ [][NextParser]_vars

====
